---- MODULE Spec2Model ----
(***************************************************************************)
(* Notification dispatch and batching of Shadow-Bind:                      *)
(*   src/lib/notifications/service.js  (class NotificationsService)        *)
(*                                                                         *)
(* The service runs on one JavaScript event loop.  A handler runs without  *)
(* interruption up to its next await; each action below is one such run.   *)
(* The awaits of the service are:                                          *)
(*   - line 189, after the preference gate was evaluated at the call;      *)
(*   - line 247, navigator.serviceWorker.getRegistration(), the only wait  *)
(*     on the outside world: everything from its resolution (postMessage   *)
(*     or the direct fallback, the return through sendGroupedNotification  *)
(*     into the loop of processBatch and the next group's call) is one run;*)
(*   - lines 223/225 and 230, after which the history record is pushed     *)
(*     and the call returns.                                               *)
(***************************************************************************)
EXTENDS Integers, Sequences, FiniteSets, TLC

\* ------------------------------------------------------------------------
\* NOTIFICATIONS_CONFIG (service.js:23-59)
\* ------------------------------------------------------------------------

CATEGORIES == {"message", "group_invite", "mention", "file_share", "system", "security"}

PRIORITY == {"high", "normal", "low"}

BATCH_SIZE == 10

\* ------------------------------------------------------------------------
\* Bounds of the model
\* ------------------------------------------------------------------------

\* notifications built in one behaviour of Spec, SpecGate and SpecDnd,
\* SpecTimer, SpecBatch
MaxNotifs == 2

MaxGateNotifs == 1

MaxTimerNotifs == 3

MaxBatchNotifs == 11

\* sendNotification calls in flight at once: in Spec, in the other
\* specifications
MaxInFlight == 2

MaxInFlightNarrow == 1

\* timeouts that expire in one behaviour of SpecBatch
MaxBatchExpiries == 1

\* notifications built in one behaviour of SpecSink
MaxSinkNotifs == 2

\* push events in one behaviour of SpecClick
MaxPushes == 1

\* notifications built in one behaviour of SpecDirect
MaxDirectNotifs == 1

\* push events, and clearAllNotifications runs in progress at once, in one
\* behaviour of SpecPush
MaxPushEvents == 2

MaxClears == 1

\* flushes after which processBatch is called directly no more, in one
\* behaviour of SpecCycle
MaxCycleFlushes == 1

\* notifications built in one behaviour of SpecCycle
MaxCycleNotifs == 10

\* notifications built in one behaviour of SpecSuppress
MaxSuppressNotifs == 2

\* notifications built in one behaviour of SpecHistory, and the largest
\* limit passed to getNotificationHistory, short of its default
MaxHistoryNotifs == 3

MaxLimit == 4

\* getNotificationHistory(limit = 50)
DefaultLimit == 50

\* ------------------------------------------------------------------------
\* Values
\* ------------------------------------------------------------------------

\* this.preferences = null (service.js:71); an object is a record of the keys
\* it holds, so that a missing key reads as undefined.
Null == [null |-> TRUE]

\* A free slot of the table of calls in flight.
Idle == [pc |-> "idle"]

Has(obj, key) == obj # Null /\ key \in DOMAIN obj

\* { ...a, ...b } (service.js:478): the keys of b replace those of a whole;
\* spreading null adds nothing.
Spread(a, b) ==
    LET da == IF a = Null THEN {} ELSE DOMAIN a
        db == IF b = Null THEN {} ELSE DOMAIN b
    IN  [k \in da \cup db |-> IF k \in db THEN b[k] ELSE a[k]]

\* {}: an object with no keys.
EmptyObj == [k \in {} |-> ""]

\* obj[key] in a truth test: a missing key and the empty string are falsy.
Truthy(obj, key) == key \in DOMAIN obj /\ obj[key] # ""

\* ${obj[key]} in a template string: a missing key prints as undefined.
Field(obj, key) == IF key \in DOMAIN obj THEN obj[key] ELSE "undefined"

Remove(s, i) == [j \in 1..(Len(s) - 1) |-> IF j < i THEN s[j] ELSE s[j + 1]]

\* ------------------------------------------------------------------------
\* Preference gate (service.js:520-556)
\* ------------------------------------------------------------------------

\* Mutant of isDoNotDisturbTime: the window never wraps past midnight.
isDoNotDisturbTimeNoWrap(prefs, hour) ==
    IF ~Has(prefs, "doNotDisturbSchedule")
    THEN FALSE
    ELSE LET start == prefs.doNotDisturbSchedule.start
             end   == prefs.doNotDisturbSchedule.end
         IN  hour >= start /\ hour < end

isDoNotDisturbTime(prefs, hour) ==
    IF ~Has(prefs, "doNotDisturbSchedule")
    THEN FALSE
    ELSE LET start == prefs.doNotDisturbSchedule.start
             end   == prefs.doNotDisturbSchedule.end
         IN  IF start <= end
             THEN hour >= start /\ hour < end
             ELSE hour >= start \/ hour < end

\* categories[category] of a map that may lack the key: undefined is falsy.
CategoryFlag(cats, category) == category \in DOMAIN cats /\ cats[category]

\* Mutant of shouldSendNotification: high priority passes before the
\* category is looked up.
shouldSendHighFirst(prefs, category, priority, hour) ==
    IF prefs = Null
    THEN TRUE
    ELSE IF priority = "high"
    THEN TRUE
    ELSE IF Has(prefs, "categories") /\ ~CategoryFlag(prefs.categories, category)
    THEN FALSE
    ELSE ~(Has(prefs, "doNotDisturb") /\ prefs.doNotDisturb
            /\ isDoNotDisturbTime(prefs, hour))

shouldSendNotification(prefs, category, priority, hour) ==
    IF prefs = Null
    THEN TRUE
    ELSE IF Has(prefs, "categories") /\ ~CategoryFlag(prefs.categories, category)
    THEN FALSE
    ELSE IF Has(prefs, "doNotDisturb") /\ prefs.doNotDisturb
            /\ isDoNotDisturbTime(prefs, hour)
    THEN priority = "high"
    ELSE TRUE

\* loadPreferences (service.js:620-641)
DefaultPreferences ==
    [categories |-> [c \in CATEGORIES |-> TRUE],
     doNotDisturb |-> FALSE,
     doNotDisturbSchedule |-> [start |-> 22, end |-> 8]]

\* ------------------------------------------------------------------------
\* State
\* ------------------------------------------------------------------------

VARIABLES
    batchQueue,           \* this.batchQueue: notifications awaiting a flush
    batchTimer,           \* this.batchTimer: handle of the flush timeout, 0 = null
    timeouts,             \* handles of the timeouts the event loop still holds
    notificationHistory,  \* this.notificationHistory
    preferences,          \* this.preferences
    calls,                \* sendNotification calls in flight, by slot
    tasks,                \* deliveries waiting on getRegistration()
    sink,                 \* every object passed to sendImmediateNotification
    nextId,               \* source of generateNotificationId()
    flushed,              \* the snapshot of every processBatch run that took one
    expired,              \* per expired timeout, the queue length it found
    lastReturn,           \* what the latest sendNotification call returned
    inbox,                \* messages posted to the service worker, not yet handled
    shown,                \* the notifications on display
    badge,                \* the application badge (navigator.setAppBadge)
    showing,              \* handlePushNotification runs awaiting showNotification
    clearing,             \* clearAllNotifications runs holding their list
    nav,                  \* the latest navigation a click caused
    pushLog,              \* what the push listener did with each push event
    fetched               \* what the latest getNotificationHistory call returned

vars == <<batchQueue, batchTimer, timeouts, notificationHistory, preferences,
          calls, tasks, sink, nextId, flushed, expired, lastReturn,
          inbox, shown, badge, showing, clearing, nav, pushLog, fetched>>

\* What the service worker and the display hold.
surface == <<inbox, shown, badge, showing, clearing, nav, pushLog>>

\* The fields addToBatch and processBatch work on, as one value, so that one
\* run of a handler can apply them in sequence.
Batching ==
    [batchQueue |-> batchQueue, batchTimer |-> batchTimer, timeouts |-> timeouts,
     tasks |-> tasks, sink |-> sink, flushed |-> flushed]

Commit(st) ==
    /\ batchQueue' = st.batchQueue
    /\ batchTimer' = st.batchTimer
    /\ timeouts' = st.timeouts
    /\ tasks' = st.tasks
    /\ sink' = st.sink
    /\ flushed' = st.flushed

\* ------------------------------------------------------------------------
\* Grouping and summaries (service.js:336-389, 571-582)
\* ------------------------------------------------------------------------

getCategoryTitle(category) ==
    CASE category = "message"      -> "New Messages"
      [] category = "group_invite" -> "Group Invitations"
      [] category = "mention"      -> "Mentions"
      [] category = "file_share"   -> "File Shares"
      [] category = "system"       -> "System Notifications"
      [] category = "security"     -> "Security Alerts"
      [] OTHER                     -> "Notifications"

\* grouped.get(category).push(notification), creating the entry on first use:
\* a Map iterates in insertion order, so the groups are kept as a sequence.
GroupPush(grouped, notification) ==
    IF \E i \in 1..Len(grouped) : grouped[i].category = notification.category
    THEN [i \in 1..Len(grouped) |->
            IF grouped[i].category = notification.category
            THEN [grouped[i] EXCEPT !.notifications = Append(@, notification)]
            ELSE grouped[i]]
    ELSE Append(grouped, [category |-> notification.category,
                          notifications |-> <<notification>>])

RECURSIVE GroupFrom(_, _)
GroupFrom(grouped, notifications) ==
    IF notifications = <<>>
    THEN grouped
    ELSE GroupFrom(GroupPush(grouped, Head(notifications)), Tail(notifications))

groupNotifications(notifications) == GroupFrom(<<>>, notifications)

Ids(notifications) == [i \in 1..Len(notifications) |-> notifications[i].id]

SummaryBody(count, category) ==
    ToString(count) \o " new " \o category \o " notifications"

\* The object sendGroupedNotification passes to sendImmediateNotification.
sendGroupedNotification(category, notifications) ==
    LET count == Len(notifications)
    IN  IF count = 1
        THEN notifications[1]
        ELSE [title |-> getCategoryTitle(category),
              body |-> SummaryBody(count, category),
              category |-> category,
              priority |-> "normal",
              data |-> [type |-> "summary", category |-> category, count |-> count,
                        notifications |-> Ids(notifications)],
              options |->
                 [body |-> SummaryBody(count, category),
                  tag |-> category \o "_summary",
                  data |-> [type |-> "summary", category |-> category,
                            notifications |-> Ids(notifications)]]]

\* sendImmediateNotification up to its await (service.js:244-247): the object
\* is handed over and the delivery waits for getRegistration(). `rest` are
\* the groups the loop of processBatch has still to send, `owner` the slot of
\* the sendNotification call awaiting this delivery (0: none), `flush` the
\* processBatch run it belongs to (0: the immediate path).
sendImmediateNotification(st, notification, rest, owner, flush) ==
    [st EXCEPT
        !.sink = Append(@, [n |-> notification, flush |-> flush]),
        !.tasks = Append(@, [cur |-> Len(st.sink) + 1, rest |-> rest,
                             owner |-> owner, flush |-> flush])]

\* ------------------------------------------------------------------------
\* Batch queue (service.js:287-329)
\* ------------------------------------------------------------------------

\* Mutant of processBatch: the queue is not cleared after the snapshot.
processBatchKeepsQueue(st, owner) ==
    IF Len(st.batchQueue) = 0
    THEN st
    ELSE LET batch == st.batchQueue
             grouped == groupNotifications(batch)
             flush == Len(st.flushed) + 1
             cleared == [st EXCEPT !.batchTimer = 0, !.flushed = Append(@, batch)]
         IN  sendImmediateNotification(
                 cleared,
                 sendGroupedNotification(grouped[1].category, grouped[1].notifications),
                 Tail(grouped), owner, flush)

\* Mutant of processBatch: the flush drops the queue when the category of a
\* queued item is disabled in the preferences of the moment.
processBatchGated(st, owner) ==
    IF Len(st.batchQueue) = 0
    THEN st
    ELSE IF \E i \in DOMAIN st.batchQueue :
                /\ Has(preferences, "categories")
                /\ ~CategoryFlag(preferences.categories, st.batchQueue[i].category)
    THEN [st EXCEPT !.batchQueue = <<>>, !.batchTimer = 0]
    ELSE LET batch == st.batchQueue
             grouped == groupNotifications(batch)
             flush == Len(st.flushed) + 1
             cleared == [st EXCEPT !.batchQueue = <<>>, !.batchTimer = 0,
                                   !.flushed = Append(@, batch)]
         IN  sendImmediateNotification(
                 cleared,
                 sendGroupedNotification(grouped[1].category, grouped[1].notifications),
                 Tail(grouped), owner, flush)

\* processBatch up to its first await: the snapshot, the clearing of the
\* queue and of the timer handle, the grouping, and the first group's call.
processBatch(st, owner) ==
    IF Len(st.batchQueue) = 0
    THEN st
    ELSE LET batch == st.batchQueue
             grouped == groupNotifications(batch)
             flush == Len(st.flushed) + 1
             cleared == [st EXCEPT !.batchQueue = <<>>, !.batchTimer = 0,
                                   !.flushed = Append(@, batch)]
         IN  sendImmediateNotification(
                 cleared,
                 sendGroupedNotification(grouped[1].category, grouped[1].notifications),
                 Tail(grouped), owner, flush)

\* setTimeout returns a handle no pending timeout has.
NewTimeout(st) ==
    CHOOSE t \in 1..(Cardinality(st.timeouts) + 1) :
        /\ t \notin st.timeouts
        /\ \A u \in 1..(t - 1) : u \in st.timeouts

\* Mutant of addToBatch: the size test is > instead of >=.
addToBatchOffByOne(st, notification, owner) ==
    LET pushed == [st EXCEPT !.batchQueue = Append(@, notification)]
        timed == IF pushed.batchTimer = 0
                 THEN [pushed EXCEPT !.batchTimer = NewTimeout(pushed),
                                     !.timeouts = @ \cup {NewTimeout(pushed)}]
                 ELSE pushed
    IN  IF Len(timed.batchQueue) > BATCH_SIZE
        THEN processBatch([timed EXCEPT !.timeouts = @ \ {timed.batchTimer},
                                        !.batchTimer = 0], owner)
        ELSE timed

addToBatch(st, notification, owner) ==
    LET pushed == [st EXCEPT !.batchQueue = Append(@, notification)]
        timed == IF pushed.batchTimer = 0
                 THEN [pushed EXCEPT !.batchTimer = NewTimeout(pushed),
                                     !.timeouts = @ \cup {NewTimeout(pushed)}]
                 ELSE pushed
    IN  IF Len(timed.batchQueue) >= BATCH_SIZE
        THEN processBatch([timed EXCEPT !.timeouts = @ \ {timed.batchTimer},
                                        !.batchTimer = 0], owner)
        ELSE timed

\* ------------------------------------------------------------------------
\* Operations
\* ------------------------------------------------------------------------

\* constructor (service.js:65-72); `slots` calls may be in flight at once.
Constructed(slots) ==
    /\ batchQueue = <<>>
    /\ batchTimer = 0
    /\ timeouts = {}
    /\ notificationHistory = <<>>
    /\ preferences = Null
    /\ calls = [slot \in 1..slots |-> Idle]
    /\ tasks = <<>>
    /\ sink = <<>>
    /\ nextId = 1
    /\ flushed = <<>>
    /\ expired = <<>>
    /\ lastReturn = "none"
    /\ inbox = <<>>
    /\ shown = {}
    /\ badge = 0
    /\ showing = 0
    /\ clearing = <<>>
    /\ nav = [kind |-> "none", url |-> ""]
    /\ pushLog = <<>>
    /\ fetched = <<>>

Busy == {slot \in DOMAIN calls : calls[slot] # Idle}

FreeSlot == CHOOSE slot \in DOMAIN calls :
                /\ calls[slot] = Idle
                /\ \A other \in 1..(slot - 1) : calls[other] # Idle

\* The notification object of service.js:194-219.
Notification(req, id) ==
    [id |-> id,
     title |-> req.title,
     body |-> req.body,
     category |-> req.category,
     priority |-> req.priority,
     data |-> req.data,
     userId |-> req.userId,
     options |->
        [body |-> req.body,
         data |-> Spread(req.data, [category |-> req.category,
                                    priority |-> req.priority]),
         tag |-> req.category \o "_"
                    \o (IF req.userId = "" THEN "system" ELSE req.userId),
         renotify |-> (req.priority = "high")]]

\* sendNotification, lines 175-189: the call, up to the await on the gate.
\* shouldSendNotification has no await of its own, so the gate reads the
\* preferences and the clock (hour) of the moment of the call.
SendNotification(req, hour) ==
    /\ Busy # DOMAIN calls
    /\ calls' = [calls EXCEPT ![FreeSlot] =
            [pc |-> "gate", req |-> req, hour |-> hour,
             allowed |-> shouldSendNotification(preferences, req.category,
                                                req.priority, hour)]]
    /\ UNCHANGED <<batchQueue, batchTimer, timeouts, notificationHistory,
                   preferences, tasks, sink, nextId, flushed, expired, lastReturn>>
    /\ UNCHANGED surface
    /\ UNCHANGED fetched

\* Mutant of HandleByPriority: only normal priority is batched.
HandleOnlyNormalBatched(st, notification, owner) ==
    IF notification.priority # "normal"
    THEN sendImmediateNotification(st, notification, <<>>, owner, 0)
    ELSE addToBatch(st, notification, owner)

\* The branch on priority (service.js:221-226).
HandleByPriority(st, notification, owner) ==
    IF notification.priority = "high"
    THEN sendImmediateNotification(st, notification, <<>>, owner, 0)
    ELSE addToBatch(st, notification, owner)

\* Mutant of Dispatch: a suppressed request is queued all the same.
DispatchQueuesSuppressed(slot) ==
    /\ calls[slot].pc = "gate"
    /\ IF ~calls[slot].allowed
       THEN /\ lastReturn' = "false"
            /\ calls' = [calls EXCEPT ![slot] = Idle]
            /\ Commit(addToBatch(Batching, Notification(calls[slot].req, nextId), 0))
            /\ UNCHANGED nextId
       ELSE LET notification == Notification(calls[slot].req, nextId)
                st == HandleByPriority(Batching, notification, slot)
                waits == Len(st.tasks) > Len(tasks)
            IN  /\ Commit(st)
                /\ nextId' = nextId + 1
                /\ calls' = [calls EXCEPT ![slot] =
                        [pc |-> IF waits THEN "await" ELSE "history",
                         n |-> notification]]
                /\ UNCHANGED lastReturn
    /\ UNCHANGED <<notificationHistory, preferences, expired>>
    /\ UNCHANGED surface
    /\ UNCHANGED fetched

\* sendNotification, lines 189-226: the gate's verdict, the notification
\* object, and the branch on priority up to the next await.
Dispatch(slot) ==
    /\ calls[slot].pc = "gate"
    /\ IF ~calls[slot].allowed
       THEN /\ lastReturn' = "false"
            /\ calls' = [calls EXCEPT ![slot] = Idle]
            /\ UNCHANGED <<batchQueue, batchTimer, timeouts, tasks, sink,
                           nextId, flushed>>
       ELSE LET notification == Notification(calls[slot].req, nextId)
                st == HandleByPriority(Batching, notification, slot)
                waits == Len(st.tasks) > Len(tasks)
            IN  /\ Commit(st)
                /\ nextId' = nextId + 1
                /\ calls' = [calls EXCEPT ![slot] =
                        [pc |-> IF waits THEN "await" ELSE "history",
                         n |-> notification]]
                /\ UNCHANGED lastReturn
    /\ UNCHANGED <<notificationHistory, preferences, expired>>
    /\ UNCHANGED surface
    /\ UNCHANGED fetched

\* What the environment does with one delivery (service.js:247-280):
\*   worker  an active registration took the postMessage;
\*   direct  the fallback showed new Notification(...);
\*   none    the fallback found Notification.permission not granted;
\*   throw   the fallback threw, and sendImmediateNotification rejects.
Outcomes == {"worker", "direct", "none", "throw"}

\* The display keeps one notification per tag: showing a notification whose
\* tag is on display replaces the one shown.
Display(displayed, entry) ==
    {e \in displayed : e.tag # entry.tag} \cup {entry}

\* new Notification(notification.title, notification.options)
\* (service.js:272), with what its onclick handler reads of the notification
\* it closes over: category and data (the id is only logged by markAsRead).
DirectEntry(notification) ==
    [title |-> notification.title,
     tag |-> notification.options.tag,
     renotify |-> ("renotify" \in DOMAIN notification.options
                        /\ notification.options.renotify),
     data |-> notification.options.data,
     via |-> "direct",
     n |-> [category |-> notification.category, data |-> notification.data]]

\* registration.active.postMessage (service.js:250-253)
ShowMessage(notification) ==
    [type |-> "SHOW_NOTIFICATION", notification |-> notification]

\* The run that starts when getRegistration() of task i settles: the delivery
\* of tasks[i].cur ends with `outcome`.  In processBatch the loop goes on to
\* the next group, or its catch (line 326) ends the flush; on the immediate
\* path a throw reaches the catch of sendNotification (line 233).
Resolve(i, outcome) ==
    LET task == tasks[i]
        more == outcome # "throw" /\ task.rest # <<>>
        failed == outcome = "throw" /\ task.flush = 0
    IN  /\ i \in DOMAIN tasks
        /\ inbox' = IF outcome = "worker"
                    THEN Append(inbox, ShowMessage(sink[task.cur].n))
                    ELSE inbox
        /\ shown' = IF outcome = "direct"
                    THEN Display(shown, DirectEntry(sink[task.cur].n))
                    ELSE shown
        /\ UNCHANGED <<badge, showing, clearing, nav, pushLog>>
        /\ IF more
           THEN /\ sink' = Append(sink,
                        [n |-> sendGroupedNotification(task.rest[1].category,
                                                       task.rest[1].notifications),
                         flush |-> task.flush])
                /\ tasks' = [tasks EXCEPT ![i] = [task EXCEPT
                                !.cur = Len(sink) + 1, !.rest = Tail(task.rest)]]
                /\ UNCHANGED <<calls, lastReturn>>
           ELSE /\ UNCHANGED sink
                /\ tasks' = Remove(tasks, i)
                /\ IF task.owner = 0
                   THEN UNCHANGED <<calls, lastReturn>>
                   ELSE IF failed
                   THEN /\ lastReturn' = "false"
                        /\ calls' = [calls EXCEPT ![task.owner] = Idle]
                   ELSE /\ calls' = [calls EXCEPT ![task.owner].pc = "history"]
                        /\ UNCHANGED lastReturn
        /\ UNCHANGED <<batchQueue, batchTimer, timeouts, notificationHistory,
                       preferences, nextId, flushed, expired>>
        /\ UNCHANGED fetched

\* Mutant of Complete: only a notification delivered at once is recorded.
CompleteSkipsQueued(slot) ==
    /\ calls[slot].pc = "history"
    /\ notificationHistory' = IF calls[slot].n.priority = "high"
                              THEN Append(notificationHistory, calls[slot].n)
                              ELSE notificationHistory
    /\ lastReturn' = "true"
    /\ calls' = [calls EXCEPT ![slot] = Idle]
    /\ UNCHANGED <<batchQueue, batchTimer, timeouts, preferences, tasks, sink,
                   nextId, flushed, expired>>
    /\ UNCHANGED surface
    /\ UNCHANGED fetched

\* sendNotification, lines 228-232: the history record and the return.
Complete(slot) ==
    /\ calls[slot].pc = "history"
    /\ notificationHistory' = Append(notificationHistory, calls[slot].n)
    /\ lastReturn' = "true"
    /\ calls' = [calls EXCEPT ![slot] = Idle]
    /\ UNCHANGED <<batchQueue, batchTimer, timeouts, preferences, tasks, sink,
                   nextId, flushed, expired>>
    /\ UNCHANGED surface
    /\ UNCHANGED fetched

\* The timeout set at service.js:292 expires and calls processBatch.
TimerExpires(t) ==
    /\ t \in timeouts
    /\ Commit(processBatch([Batching EXCEPT !.timeouts = @ \ {t}], 0))
    /\ expired' = Append(expired, Len(batchQueue))
    /\ UNCHANGED <<notificationHistory, preferences, calls, nextId, lastReturn>>
    /\ UNCHANGED surface
    /\ UNCHANGED fetched

\* processBatch called on the service by application code.
ProcessBatch ==
    /\ Commit(processBatch(Batching, 0))
    /\ UNCHANGED <<notificationHistory, preferences, calls, nextId, expired,
                   lastReturn>>
    /\ UNCHANGED surface
    /\ UNCHANGED fetched

\* updatePreferences (service.js:476-488)
UpdatePreferences(partial) ==
    /\ preferences' = Spread(preferences, partial)
    /\ UNCHANGED <<batchQueue, batchTimer, timeouts, notificationHistory,
                   calls, tasks, sink, nextId, flushed, expired, lastReturn>>
    /\ UNCHANGED surface
    /\ UNCHANGED fetched

\* loadPreferences (service.js:620-641), run by initialize()
LoadPreferences ==
    /\ preferences' = DefaultPreferences
    /\ UNCHANGED <<batchQueue, batchTimer, timeouts, notificationHistory,
                   calls, tasks, sink, nextId, flushed, expired, lastReturn>>
    /\ UNCHANGED surface
    /\ UNCHANGED fetched

\* array.slice(start) with an integer start: a negative start counts from
\* the end, and -0 is 0.
Slice(array, start) ==
    LET from == IF start < 0
                THEN (IF Len(array) + start > 0 THEN Len(array) + start ELSE 0)
                ELSE (IF start < Len(array) THEN start ELSE Len(array))
    IN  SubSeq(array, from + 1, Len(array))

\* getNotificationHistory (service.js:460-469)
getNotificationHistory(limit) == Slice(notificationHistory, 0 - limit)

GetNotificationHistory(limit) ==
    /\ fetched' = getNotificationHistory(limit)
    /\ UNCHANGED <<batchQueue, batchTimer, timeouts, notificationHistory,
                   preferences, calls, tasks, sink, nextId, flushed, expired,
                   lastReturn>>
    /\ UNCHANGED surface

\* ------------------------------------------------------------------------
\* Service worker (sw-notifications.js) and the display
\* ------------------------------------------------------------------------

\* Date.now() in the worker at a display.
Clock == {1000, 1001}

\* The notifications self.registration.getNotifications() lists: those the
\* worker showed; one made by new Notification(...) in the page is not among
\* them.
Persistent == {e \in shown : e.via = "worker"}

\* handlePushNotification, lines 101-140: the destructuring with its
\* defaults and the options passed to showNotification.
PushEntry(data, now) ==
    LET category == IF "category" \in DOMAIN data THEN data.category ELSE "message"
        notificationData == IF "data" \in DOMAIN data THEN data.data ELSE EmptyObj
    IN  [title |-> Field(data, "title"),
         tag |-> IF Truthy(data, "tag")
                 THEN data.tag
                 ELSE category \o "_" \o ToString(now),
         renotify |-> (category = "security"),
         data |-> Spread(notificationData, [category |-> category]),
         via |-> "worker"]

\* What showNotification does (line 143): it displays and its promise
\* resolves later, or it rejects (no permission) and the catch logs.
ShowOutcomes == {"shown", "rejected"}

\* handlePushNotification (lines 99-143) up to the await on showNotification.
\* shouldShowNotification (341-350) returns true whatever it is given.
\* Destructuring null throws into the catch of line 156.
handlePushNotification(data, now, outcome) ==
    IF data # Null /\ outcome = "shown"
    THEN /\ shown' = Display(shown, PushEntry(data, now))
         /\ showing' = showing + 1
    ELSE UNCHANGED <<shown, showing>>

\* handlePushNotification after showNotification resolved (lines 146-154):
\* updateNotificationBadge() without a count sets the badge to 0.
ShowSettled ==
    /\ showing > 0
    /\ showing' = showing - 1
    /\ badge' = 0
    /\ UNCHANGED <<batchQueue, batchTimer, timeouts, notificationHistory,
                   preferences, calls, tasks, sink, nextId, flushed, expired,
                   lastReturn, inbox, shown, clearing, nav, pushLog>>
    /\ UNCHANGED fetched

\* JSON text of an object of string fields taken in the order of keys, a
\* nested object under "data".
RECURSIVE Members(_, _)
Members(obj, keys) ==
    IF keys = <<>>
    THEN ""
    ELSE IF Head(keys) \in DOMAIN obj
    THEN "\"" \o Head(keys) \o "\":\"" \o obj[Head(keys)] \o "\","
            \o Members(obj, Tail(keys))
    ELSE Members(obj, Tail(keys))

DataKeys == <<"groupId", "chatId", "messageId", "url">>

PayloadKeys == <<"title", "body", "category", "priority", "tag">>

Stringify(payload) ==
    "{" \o Members(payload, PayloadKeys)
        \o (IF "data" \in DOMAIN payload
            THEN "\"data\":{" \o Members(payload.data, DataKeys) \o "}"
            ELSE "")
        \o "}"

\* event.data.json() (line 84) over the texts `docs` stands for: the value
\* whose text it is given, or a SyntaxError.
Json(docs, text) ==
    IF text = "null"
    THEN [ok |-> TRUE, value |-> Null]
    ELSE IF \E d \in docs : Stringify(d) = text
    THEN [ok |-> TRUE, value |-> CHOOSE d \in docs : Stringify(d) = text]
    ELSE [ok |-> FALSE]

\* A push event without data, and one carrying a text.
NoData == [nodata |-> TRUE]

PushOf(text) == [data |-> text]

\* Mutant of Push: the listener goes on with an empty object when the event
\* has no data or its text does not parse.
PushUnguarded(docs, event) ==
    LET parsed == IF "data" \in DOMAIN event
                  THEN Json(docs, event.data)
                  ELSE [ok |-> FALSE]
    IN  /\ pushLog' = Append(pushLog, "handled")
        /\ \E now \in Clock, outcome \in ShowOutcomes :
              handlePushNotification(IF parsed.ok THEN parsed.value ELSE EmptyObj,
                                     now, outcome)
        /\ UNCHANGED <<batchQueue, batchTimer, timeouts, notificationHistory,
                       preferences, calls, tasks, sink, nextId, flushed, expired,
                       lastReturn, inbox, badge, clearing, nav>>
        /\ UNCHANGED fetched

\* The push listener (lines 74-93).
Push(docs, event) ==
    /\ IF "data" \notin DOMAIN event
       THEN /\ pushLog' = Append(pushLog, "nodata")
            /\ UNCHANGED <<shown, showing>>
       ELSE LET parsed == Json(docs, event.data)
            IN  IF ~parsed.ok
                THEN /\ pushLog' = Append(pushLog, "badjson")
                     /\ UNCHANGED <<shown, showing>>
                ELSE /\ pushLog' = Append(pushLog, "handled")
                     /\ \E now \in Clock, outcome \in ShowOutcomes :
                           handlePushNotification(parsed.value, now, outcome)
    /\ UNCHANGED <<batchQueue, batchTimer, timeouts, notificationHistory,
                   preferences, calls, tasks, sink, nextId, flushed, expired,
                   lastReturn, inbox, badge, clearing, nav>>
    /\ UNCHANGED fetched

\* A page posts a message to the worker.
PostMessage(msg) ==
    /\ inbox' = Append(inbox, msg)
    /\ UNCHANGED <<batchQueue, batchTimer, timeouts, notificationHistory,
                   preferences, calls, tasks, sink, nextId, flushed, expired,
                   lastReturn, shown, badge, showing, clearing, nav, pushLog>>
    /\ UNCHANGED fetched

\* The message listener (lines 297-322) on the oldest message posted.
WorkerMessage ==
    /\ inbox # <<>>
    /\ inbox' = Tail(inbox)
    /\ LET msg == Head(inbox)
       IN  CASE msg.type = "SHOW_NOTIFICATION" ->
                    /\ \E now \in Clock, outcome \in ShowOutcomes :
                          handlePushNotification(msg.notification, now, outcome)
                    /\ UNCHANGED <<badge, clearing>>
             [] msg.type = "CLEAR_NOTIFICATIONS" ->
                    /\ clearing' = Append(clearing, "worker")
                    /\ UNCHANGED <<shown, showing, badge>>
             [] msg.type = "UPDATE_BADGE" ->
                    /\ badge' = (IF "count" \in DOMAIN msg THEN msg.count ELSE 0)
                    /\ UNCHANGED <<shown, showing, clearing>>
             [] OTHER ->
                    UNCHANGED <<shown, showing, badge, clearing>>
    /\ UNCHANGED <<batchQueue, batchTimer, timeouts, notificationHistory,
                   preferences, calls, tasks, sink, nextId, flushed, expired,
                   lastReturn, nav, pushLog>>
    /\ UNCHANGED fetched

\* clearAllNotifications of the service (service.js:494-496), up to its
\* await on getRegistration().
ClearAllNotifications ==
    /\ clearing' = Append(clearing, "service")
    /\ UNCHANGED <<batchQueue, batchTimer, timeouts, notificationHistory,
                   preferences, calls, tasks, sink, nextId, flushed, expired,
                   lastReturn, inbox, shown, badge, showing, nav, pushLog>>
    /\ UNCHANGED fetched

\* What a clearAllNotifications run finds when its awaits settle:
\*   listed    the registration's notifications, which it closes;
\*   missing   no registration (the service only);
\*   rejected  getRegistration() or getNotifications() rejected.
ClearOutcomes == {"listed", "missing", "rejected"}

\* The rest of a clearAllNotifications run: of the service
\* (service.js:498-508), which closes what the registration lists, or of the
\* worker (sw-notifications.js:371-379), which also sets the badge to 0.
ClearSettled(i, outcome) ==
    /\ i \in DOMAIN clearing
    /\ outcome = "missing" => clearing[i] = "service" /\ Persistent = {}
    /\ clearing' = Remove(clearing, i)
    /\ shown' = IF outcome = "listed" THEN shown \ Persistent ELSE shown
    /\ badge' = IF outcome = "listed" /\ clearing[i] = "worker" THEN 0 ELSE badge
    /\ UNCHANGED <<batchQueue, batchTimer, timeouts, notificationHistory,
                   preferences, calls, tasks, sink, nextId, flushed, expired,
                   lastReturn, inbox, showing, nav, pushLog>>
    /\ UNCHANGED fetched

\* The target handleNotificationClick of the worker computes (lines 193-225).
targetUrl(data) ==
    LET category == Field(data, "category")
    IN  IF Truthy(data, "url")
        THEN data.url
        ELSE CASE category = "message" ->
                    IF Truthy(data, "groupId")
                    THEN "/groups/" \o data.groupId
                    ELSE IF Truthy(data, "chatId")
                    THEN "/chat/" \o data.chatId
                    ELSE "/"
               [] category = "group_invite" ->
                    "/groups/" \o Field(data, "groupId")
               [] category = "mention" ->
                    "/groups/" \o Field(data, "groupId")
                        \o "?message=" \o Field(data, "messageId")
               [] category = "security" ->
                    "/admin/security"
               [] OTHER ->
                    "/notifications"

\* handleNotificationClick of the worker (lines 191-250): an open window of
\* the application is focused and told the target, or a window is opened.
handleNotificationClick(data, clientOpen) ==
    [kind |-> IF clientOpen THEN "post" ELSE "open", url |-> targetUrl(data)]

\* Mutant of handleNotificationAction: an unknown action opens the
\* notifications page.
handleNotificationActionOpens(action, data) ==
    CASE action = "reply" ->
            [kind |-> "open",
             url |-> "/chat/" \o (IF Truthy(data, "chatId")
                                  THEN data.chatId
                                  ELSE Field(data, "groupId")) \o "?reply=true"]
      [] action = "view_group" ->
            [kind |-> "open", url |-> "/groups/" \o Field(data, "groupId")]
      [] action \in {"mark_read", "dismiss", "accept_invite"} ->
            nav
      [] OTHER ->
            [kind |-> "open", url |-> "/notifications"]

\* handleNotificationAction (lines 257-292): the navigation it causes, the
\* latest one standing when it causes none.
handleNotificationAction(action, data) ==
    CASE action = "reply" ->
            [kind |-> "open",
             url |-> "/chat/" \o (IF Truthy(data, "chatId")
                                  THEN data.chatId
                                  ELSE Field(data, "groupId")) \o "?reply=true"]
      [] action = "view_group" ->
            [kind |-> "open", url |-> "/groups/" \o Field(data, "groupId")]
      [] OTHER ->
            nav

\* The notificationclick listener (lines 164-185) on a notification the
\* worker showed; action "" is a click on the notification itself.
NotificationClick(entry, action, clientOpen) ==
    /\ entry \in Persistent
    /\ shown' = shown \ {entry}
    /\ nav' = IF action # ""
              THEN handleNotificationAction(action, entry.data)
              ELSE handleNotificationClick(entry.data, clientOpen)
    /\ UNCHANGED <<batchQueue, batchTimer, timeouts, notificationHistory,
                   preferences, calls, tasks, sink, nextId, flushed, expired,
                   lastReturn, inbox, badge, showing, clearing, pushLog>>
    /\ UNCHANGED fetched

\* window.location.href after handleNotificationClick of the service
\* (service.js:396-428), the latest navigation standing when it sets none.
locationHref(notification) ==
    LET category == notification.category
        data == notification.data
    IN  CASE category = "message" ->
                IF Truthy(data, "groupId")
                THEN [kind |-> "href", url |-> "/groups/" \o data.groupId]
                ELSE IF Truthy(data, "chatId")
                THEN [kind |-> "href", url |-> "/chat/" \o data.chatId]
                ELSE nav
          [] category = "group_invite" ->
                [kind |-> "href", url |-> "/groups/" \o Field(data, "groupId")]
          [] category = "mention" ->
                [kind |-> "href",
                 url |-> "/groups/" \o Field(data, "groupId")
                            \o "?message=" \o Field(data, "messageId")]
          [] OTHER ->
                [kind |-> "href", url |-> "/notifications"]

\* onclick of a notification shown by the page (service.js:275-278):
\* handleNotificationClick, then close.
DirectClick(entry) ==
    /\ entry \in shown
    /\ entry.via = "direct"
    /\ nav' = locationHref(entry.n)
    /\ shown' = shown \ {entry}
    /\ UNCHANGED <<batchQueue, batchTimer, timeouts, notificationHistory,
                   preferences, calls, tasks, sink, nextId, flushed, expired,
                   lastReturn, inbox, badge, showing, clearing, pushLog>>
    /\ UNCHANGED fetched

\* ------------------------------------------------------------------------
\* Inputs
\* ------------------------------------------------------------------------

Req(title, category, priority) ==
    [title |-> title, body |-> "body", category |-> category,
     priority |-> priority, data |-> EmptyObj, userId |-> "u1"]

\* At most `max` notifications are built in one behaviour.
Room(max) == nextId + Cardinality(Busy) <= max

Hours == 0..23

AnyCategory == CATEGORIES \cup {"bogus"}

\* Spec: dispatch and batching with no stored preferences.
Requests ==
    {Req("t", "message", "high"), Req("t", "message", "normal"),
     Req("t", "mention", "low")}

Init == Constructed(MaxInFlight)

Next ==
    \/ \E req \in Requests : Room(MaxNotifs) /\ SendNotification(req, 12)
    \/ \E slot \in DOMAIN calls : Dispatch(slot)
    \/ \E i \in DOMAIN tasks, outcome \in Outcomes : Resolve(i, outcome)
    \/ \E slot \in DOMAIN calls : Complete(slot)
    \/ \E t \in timeouts : TimerExpires(t)
    \/ ProcessBatch

Spec == Init /\ [][Next]_vars

\* SpecGate: the preference gate on the categories, every category and
\* priority, with and without stored preferences.
GateCategories == {"message", "mention", "security", "bogus"}

GateRequests ==
    {Req("t", c, p) : c \in GateCategories, p \in PRIORITY}
        \cup {Req("", "message", p) : p \in PRIORITY}

GatePartials ==
    {[categories |-> [c \in {"message"} |-> FALSE]],
     [categories |-> [c \in CATEGORIES |-> c # "security"]],
     [doNotDisturb |-> TRUE]}

InitNarrow == Constructed(MaxInFlightNarrow)

NextGate ==
    \/ LoadPreferences
    \/ \E partial \in GatePartials : UpdatePreferences(partial)
    \/ \E req \in GateRequests, hour \in {12, 23} :
            Room(MaxGateNotifs) /\ SendNotification(req, hour)
    \/ \E slot \in DOMAIN calls : Dispatch(slot)
    \/ \E i \in DOMAIN tasks, outcome \in Outcomes : Resolve(i, outcome)
    \/ \E slot \in DOMAIN calls : Complete(slot)
    \/ \E t \in timeouts : TimerExpires(t)

SpecGate == InitNarrow /\ [][NextGate]_vars

\* SpecDnd: the do-not-disturb window, every hour of the day against
\* windows that are empty, plain and wrapped past midnight.
WindowHours == {0, 8, 22, 23}

DndRequests == {Req("t", "message", p) : p \in PRIORITY}

DndPartials ==
    {[doNotDisturb |-> TRUE, doNotDisturbSchedule |-> [start |-> s, end |-> e]] :
        s \in WindowHours, e \in WindowHours}

NextDnd ==
    \/ \E partial \in DndPartials : UpdatePreferences(partial)
    \/ \E req \in DndRequests, hour \in Hours :
            Room(MaxGateNotifs) /\ SendNotification(req, hour)
    \/ \E slot \in DOMAIN calls : Dispatch(slot)
    \/ \E i \in DOMAIN tasks, outcome \in Outcomes : Resolve(i, outcome)
    \/ \E slot \in DOMAIN calls : Complete(slot)
    \/ \E t \in timeouts : TimerExpires(t)

SpecDnd == InitNarrow /\ [][NextDnd]_vars

\* SpecTimer: normal-priority notifications of two categories, flushed by
\* the timeout.
TimerRequests == {Req("t", "message", "normal"), Req("t", "mention", "normal")}

NextTimer ==
    \/ \E req \in TimerRequests : Room(MaxTimerNotifs) /\ SendNotification(req, 12)
    \/ \E slot \in DOMAIN calls : Dispatch(slot)
    \/ \E i \in DOMAIN tasks, outcome \in Outcomes : Resolve(i, outcome)
    \/ \E slot \in DOMAIN calls : Complete(slot)
    \/ \E t \in timeouts : TimerExpires(t)

SpecTimer == InitNarrow /\ [][NextTimer]_vars

\* SpecBatch: enough normal-priority messages to reach BATCH_SIZE, sent by a
\* caller that awaits each call, the timeout expiring at any point among
\* them.
BatchRequests == {Req("t", "message", "normal")}

NextBatch ==
    \/ \E req \in BatchRequests :
            Busy = {} /\ Room(MaxBatchNotifs) /\ SendNotification(req, 12)
    \/ \E slot \in DOMAIN calls : Dispatch(slot)
    \/ \E i \in DOMAIN tasks, outcome \in Outcomes : Resolve(i, outcome)
    \/ \E slot \in DOMAIN calls : Complete(slot)
    \/ \E t \in timeouts : Len(expired) < MaxBatchExpiries /\ TimerExpires(t)

SpecBatch == InitNarrow /\ [][NextBatch]_vars

\* SpecCycle: the accumulation cycles of the queue: normal-priority messages
\* up to BATCH_SIZE and beyond, sent by a caller that awaits each call, with
\* timeouts expiring and processBatch called directly at any point among
\* them.
\* The deliveries of SpecCycle put nothing on display: no worker and no
\* permission, or an exception.
CycleOutcomes == {"none", "throw"}

NextCycle ==
    \/ \E req \in BatchRequests :
            Busy = {} /\ Room(MaxCycleNotifs) /\ SendNotification(req, 12)
    \/ \E slot \in DOMAIN calls : Dispatch(slot)
    \/ \E i \in DOMAIN tasks, outcome \in CycleOutcomes : Resolve(i, outcome)
    \/ \E slot \in DOMAIN calls : Complete(slot)
    \/ \E t \in timeouts : Len(expired) < MaxBatchExpiries /\ TimerExpires(t)
    \/ Len(flushed) < MaxCycleFlushes /\ ProcessBatch

SpecCycle == InitNarrow /\ [][NextCycle]_vars

\* SpecSuppress: calls the gate suppresses among calls it accepts: the
\* category of some requests is switched off, or do-not-disturb is switched
\* on for the night, while notifications are queued or being delivered.
SuppressRequests ==
    {Req("t", "message", "normal"), Req("t", "mention", "normal"),
     Req("t", "mention", "high")}

SuppressPartials ==
    {[categories |-> [c \in CATEGORIES |-> c # "mention"]],
     [doNotDisturb |-> TRUE, doNotDisturbSchedule |-> [start |-> 22, end |-> 8]]}

NextSuppress ==
    \/ \E partial \in SuppressPartials : UpdatePreferences(partial)
    \/ \E req \in SuppressRequests :
            Room(MaxSuppressNotifs) /\ SendNotification(req, 23)
    \/ \E slot \in DOMAIN calls : Dispatch(slot)
    \/ \E i \in DOMAIN tasks, outcome \in Outcomes : Resolve(i, outcome)
    \/ \E slot \in DOMAIN calls : Complete(slot)
    \/ \E t \in timeouts : TimerExpires(t)

SpecSuppress == InitNarrow /\ [][NextSuppress]_vars

\* SpecHistory: the history read back with every limit from 0 up, and with
\* none, while normal-priority messages are sent and flushed.
HistoryLimits == 0..MaxLimit \cup {DefaultLimit}

NextHistory ==
    \/ \E req \in BatchRequests :
            Busy = {} /\ Room(MaxHistoryNotifs) /\ SendNotification(req, 12)
    \/ \E slot \in DOMAIN calls : Dispatch(slot)
    \/ \E i \in DOMAIN tasks, outcome \in CycleOutcomes : Resolve(i, outcome)
    \/ \E slot \in DOMAIN calls : Complete(slot)
    \/ \E t \in timeouts : TimerExpires(t)
    \/ \E limit \in HistoryLimits : GetNotificationHistory(limit)

SpecHistory == InitNarrow /\ [][NextHistory]_vars

\* SpecSink: the service with the worker behind it: what is put on display,
\* by the worker and by the page, for high-priority notifications and for
\* the summary of a flush.
SinkRequests ==
    {Req("t", "security", "high"),
     [Req("t", "message", "high") EXCEPT !.userId = ""],
     Req("t", "message", "normal")}

NextSink ==
    \/ \E req \in SinkRequests : Room(MaxSinkNotifs) /\ SendNotification(req, 12)
    \/ \E slot \in DOMAIN calls : Dispatch(slot)
    \/ \E i \in DOMAIN tasks, outcome \in Outcomes : Resolve(i, outcome)
    \/ \E slot \in DOMAIN calls : Complete(slot)
    \/ \E t \in timeouts : TimerExpires(t)
    \/ WorkerMessage
    \/ ShowSettled

SpecSink == InitNarrow /\ [][NextSink]_vars

\* SpecClick: notifications the worker shows for push events, of every
\* category and with payloads that hold or lack each id and the url, and the
\* clicks on them, on the notification and on an action button.
ClickData ==
    {EmptyObj,
     [groupId |-> "g1"],
     [chatId |-> "c1"],
     [groupId |-> "g1", chatId |-> "c1"],
     [groupId |-> "g1", messageId |-> "m1"],
     [url |-> "/custom"],
     [url |-> "/custom", groupId |-> "g1", chatId |-> "c1", messageId |-> "m1"]}

ClickDocs ==
    {[title |-> "t", category |-> c, data |-> d] : c \in AnyCategory, d \in ClickData}

ClickActions ==
    {"", "reply", "mark_read", "dismiss", "view_group", "accept_invite", "bogus"}

NextClick ==
    \/ \E doc \in ClickDocs :
            Len(pushLog) < MaxPushes /\ Push(ClickDocs, PushOf(Stringify(doc)))
    \/ ShowSettled
    \/ \E entry \in shown, action \in ClickActions, clientOpen \in BOOLEAN :
            NotificationClick(entry, action, clientOpen)

SpecClick == InitNarrow /\ [][NextClick]_vars

\* SpecDirect: high-priority notifications of every category, with the
\* payloads of SpecClick, shown by the worker or by the page, and the click
\* on what is shown.
DirectRequests ==
    {[Req("t", c, "high") EXCEPT !.data = d] : c \in AnyCategory, d \in ClickData}

NextDirect ==
    \/ \E req \in DirectRequests : Room(MaxDirectNotifs) /\ SendNotification(req, 12)
    \/ \E slot \in DOMAIN calls : Dispatch(slot)
    \/ \E i \in DOMAIN tasks, outcome \in Outcomes : Resolve(i, outcome)
    \/ \E slot \in DOMAIN calls : Complete(slot)
    \/ WorkerMessage
    \/ ShowSettled
    \/ \E entry \in shown, clientOpen \in BOOLEAN :
            NotificationClick(entry, "", clientOpen)
    \/ \E entry \in shown : DirectClick(entry)

SpecDirect == InitNarrow /\ [][NextDirect]_vars

\* SpecPush: the worker on its own: push events with no data, with text that
\* does not parse and with payloads of each priority, the messages a page
\* posts, and clearAllNotifications from the service and in the worker, while
\* the preferences of the service change.
PushDocs ==
    {[title |-> "t", category |-> c, priority |-> p] :
        c \in {"message", "security"}, p \in PRIORITY}

BadPushes == {NoData, PushOf(""), PushOf("{title:")}

PushEvents == BadPushes \cup {PushOf("null")} \cup {PushOf(Stringify(d)) : d \in PushDocs}

PushPartials == {[categories |-> [c \in CATEGORIES |-> c # "message"]]}

AppMessages ==
    {[type |-> "UPDATE_BADGE", count |-> 3], [type |-> "CLEAR_NOTIFICATIONS"],
     [type |-> "SYNC_NOTIFICATIONS"]}

NextPush ==
    \/ \E event \in PushEvents :
            Len(pushLog) < MaxPushEvents /\ Push(PushDocs, event)
    \/ ShowSettled
    \/ \E msg \in AppMessages :
            inbox = <<>> /\ Len(clearing) < MaxClears /\ PostMessage(msg)
    \/ WorkerMessage
    \/ Len(clearing) < MaxClears /\ ClearAllNotifications
    \/ \E i \in DOMAIN clearing, outcome \in ClearOutcomes : ClearSettled(i, outcome)
    \/ \E partial \in PushPartials : UpdatePreferences(partial)

SpecPush == InitNarrow /\ [][NextPush]_vars

\* ------------------------------------------------------------------------
\* Properties
\* ------------------------------------------------------------------------

Range(seq) == {seq[i] : i \in DOMAIN seq}

\* The ids a sink entry delivers: those a summary lists, or the entry's own.
Covered(n) ==
    IF "notifications" \in DOMAIN n.data THEN Range(n.data.notifications) ELSE {n.id}

InQueue(id) == {i \in DOMAIN batchQueue : batchQueue[i].id = id}

InSnapshot(id) ==
    {p \in UNION {{<<f, i>> : i \in DOMAIN flushed[f]} : f \in DOMAIN flushed} :
        flushed[p[1]][p[2]].id = id}

InSink(id) == {k \in DOMAIN sink : id \in Covered(sink[k].n)}

Immediate(id) == {k \in InSink(id) : sink[k].flush = 0}

\* C1: a notification appended to the batch queue is, at every moment, either
\* still in the queue or in the snapshot of exactly one flush, never both and
\* never in two snapshots; at most one delivery carries it, and that delivery
\* belongs to the flush whose snapshot holds it.
C1_FlushedExactlyOnce ==
    \A id \in 1..(nextId - 1) :
        IF Immediate(id) # {}
        THEN InQueue(id) = {} /\ InSnapshot(id) = {}
        ELSE /\ Cardinality(InQueue(id)) + Cardinality(InSnapshot(id)) = 1
             /\ Cardinality(InSink(id)) <= 1
             /\ \A k \in InSink(id) : \E p \in InSnapshot(id) : p[1] = sink[k].flush

\* C1 witness: while the delivery of a timer-triggered flush is still in
\* progress, a further notification has been appended to the queue.
C1_Witness ==
    /\ \E i \in DOMAIN tasks : tasks[i].flush # 0
    /\ batchQueue # <<>>
    /\ expired # <<>> /\ expired[1] > 0

\* C2: from the empty queue and before any timeout has expired, fewer than
\* BATCH_SIZE accepted normal-priority messages cause no flush and no
\* delivery; with the BATCH_SIZE-th exactly one flush has run, it has handed
\* over exactly one summary, of all ten, with the body "10 new message
\* notifications", and the queue is empty.
C2_TenthTriggersOneSummary ==
    expired = <<>> =>
        /\ nextId - 1 < BATCH_SIZE =>
              /\ flushed = <<>>
              /\ sink = <<>>
              /\ Len(batchQueue) = nextId - 1
        /\ nextId - 1 = BATCH_SIZE =>
              /\ Len(flushed) = 1
              /\ batchQueue = <<>>
              /\ Len(sink) = 1
              /\ sink[1].n.body = "10 new message notifications"
              /\ sink[1].n.data.count = BATCH_SIZE
              /\ Covered(sink[1].n) = 1..BATCH_SIZE

\* C2 witness: the tenth message has been accepted with no timeout expired,
\* and its flush has handed over its summary.
C2_Witness ==
    /\ expired = <<>>
    /\ nextId - 1 = BATCH_SIZE
    /\ Len(sink) = 1
    /\ lastReturn = "true" /\ Len(notificationHistory) = BATCH_SIZE

IsSummary(n) == "type" \in DOMAIN n.data /\ n.data.type = "summary"

\* The sink entries of flush f, and whether its deliveries are over.
FlushOutput(f) == {k \in DOMAIN sink : sink[k].flush = f}

FlushDone(f) == f \in DOMAIN flushed /\ \A i \in DOMAIN tasks : tasks[i].flush # f

\* C3: when the first timeout expires on three queued normal-priority
\* notifications, that one flush hands over one summary of count 3 if the
\* three share a category, or one standalone notification and one summary of
\* count 2 if they split 1/2; the expiry causes no second flush.
C3_TimerFlushOfThree ==
    (expired # <<>> /\ expired[1] = 3 /\ FlushDone(1)) =>
        LET cats == {flushed[1][i].category : i \in DOMAIN flushed[1]}
            out == FlushOutput(1)
        IN  /\ Cardinality(cats) = 1 =>
                \E k \in out :
                    /\ out = {k}
                    /\ IsSummary(sink[k].n) /\ sink[k].n.data.count = 3
            /\ Cardinality(cats) = 2 =>
                \E k1, k2 \in out :
                    /\ out = {k1, k2} /\ k1 # k2
                    /\ ~IsSummary(sink[k1].n)
                    /\ IsSummary(sink[k2].n) /\ sink[k2].n.data.count = 2
            /\ Len(expired) = 1 => Len(flushed) = 1

\* C4: priority decides the path of every accepted request.  A high-priority
\* notification is handed to the sink in the step that builds it and is never
\* in the queue or in a snapshot; a normal- or low-priority one is appended
\* to the queue in that step, with the flush timeout pending, and reaches the
\* sink only through a flush whose snapshot holds it.
C4_PriorityDecidesPath ==
    /\ \A id \in 1..(nextId - 1) :
          \/ /\ \E k \in Immediate(id) : sink[k].n.priority = "high"
             /\ InQueue(id) = {} /\ InSnapshot(id) = {}
          \/ /\ Immediate(id) = {}
             /\ InQueue(id) # {} \/ InSnapshot(id) # {}
             /\ \A k \in InSink(id) : \E p \in InSnapshot(id) : p[1] = sink[k].flush
    /\ \A i \in DOMAIN batchQueue : batchQueue[i].priority \in {"normal", "low"}
    /\ \A f \in DOMAIN flushed : \A i \in DOMAIN flushed[f] :
          flushed[f][i].priority \in {"normal", "low"}
    /\ \A k \in DOMAIN sink : sink[k].flush = 0 => sink[k].n.priority = "high"
    /\ batchQueue # <<>> => batchTimer # 0 /\ batchTimer \in timeouts

\* C4 witness: a high-priority notification has gone to the sink on the
\* immediate path while a low-priority one waits in the queue, timeout pending.
C4_Witness ==
    /\ \E k \in DOMAIN sink : sink[k].flush = 0 /\ sink[k].n.priority = "high"
    /\ \E i \in DOMAIN batchQueue : batchQueue[i].priority = "low"
    /\ batchTimer \in timeouts
    /\ sink # <<>> /\ \A k \in DOMAIN sink : sink[k].flush = 0

\* Every notification object the service holds or has handed over directly.
Held ==
    Range(batchQueue) \cup Range(notificationHistory)
        \cup UNION {Range(flushed[f]) : f \in DOMAIN flushed}
        \cup {sink[k].n : k \in {j \in DOMAIN sink : sink[j].flush = 0}}

\* C5: a request whose category is not one of the six, or whose title is
\* empty, is rejected: no notification built from it is ever in the queue, in
\* a snapshot, handed to the sink or recorded in the history.
C5_InvalidRequestRejected ==
    \A n \in Held : n.category \in CATEGORIES /\ n.title # ""

\* A step in which slot takes a new sendNotification call, one in which the
\* call leaves the gate, and one in which it returns.
Called(slot) == calls[slot] = Idle /\ calls'[slot] # Idle

LeavesGate(slot) == calls[slot].pc = "gate" /\ calls'[slot] # calls[slot]

Returned(slot) == calls[slot] # Idle /\ calls'[slot] = Idle

\* The category is switched off in the stored preferences.
Disabled(prefs, category) ==
    /\ Has(prefs, "categories")
    /\ category \in DOMAIN prefs.categories
    /\ prefs.categories[category] = FALSE

\* C6: a call made while the stored preferences have the request's category
\* disabled is suppressed by the gate whatever its priority, the
\* do-not-disturb setting and the hour, and a suppressed call returns false
\* without queueing, delivering or recording anything.
C6_DisabledCategorySuppressed ==
    [][\A slot \in DOMAIN calls :
          /\ (Called(slot) /\ Disabled(preferences, calls'[slot].req.category))
                => ~calls'[slot].allowed
          /\ (LeavesGate(slot) /\ ~calls[slot].allowed)
                => /\ calls'[slot] = Idle
                   /\ lastReturn' = "false"
                   /\ UNCHANGED <<batchQueue, sink, notificationHistory, nextId>>]_vars

\* C6 witness: a high-priority call for a disabled category has been
\* suppressed by the gate, inside the do-not-disturb window with
\* do-not-disturb on.
C6_Witness ==
    \E slot \in DOMAIN calls :
        /\ calls[slot].pc = "gate"
        /\ calls[slot].req.priority = "high"
        /\ calls[slot].hour = 23
        /\ ~calls[slot].allowed
        /\ Disabled(preferences, calls[slot].req.category)
        /\ Has(preferences, "doNotDisturb") /\ preferences.doNotDisturb

\* Do-not-disturb is on with a window, and the category is not switched off.
DndOn(prefs, category) ==
    /\ Has(prefs, "doNotDisturb") /\ prefs.doNotDisturb
    /\ Has(prefs, "doNotDisturbSchedule")
    /\ ~Has(prefs, "categories") \/ CategoryFlag(prefs.categories, category)

\* Hour h is inside the window from s to e, which wraps past midnight when
\* s > e.
InWindow(s, e, h) == IF s <= e THEN s <= h /\ h < e ELSE h >= s \/ h < e

\* C7: with do-not-disturb on and a window from s to e, a call made at an
\* hour inside the window is accepted by the gate if and only if its priority
\* is high, and a call made outside the window is accepted whatever its
\* priority; an accepted call builds its notification, a suppressed one
\* returns false and builds none.
C7_DoNotDisturbWindow ==
    [][\A slot \in DOMAIN calls :
          /\ (Called(slot) /\ DndOn(preferences, calls'[slot].req.category)) =>
                LET call == calls'[slot]
                    inside == InWindow(preferences.doNotDisturbSchedule.start,
                                       preferences.doNotDisturbSchedule.end,
                                       call.hour)
                IN  call.allowed = (~inside \/ call.req.priority = "high")
          /\ LeavesGate(slot) =>
                IF calls[slot].allowed
                THEN /\ nextId' = nextId + 1
                     /\ calls'[slot] # Idle
                     /\ Len(batchQueue') + Len(sink') > Len(batchQueue) + Len(sink)
                ELSE /\ lastReturn' = "false"
                     /\ calls'[slot] = Idle
                     /\ UNCHANGED <<batchQueue, sink, nextId>>]_vars

\* C7 witness: with a window that wraps past midnight, a normal-priority call
\* made after midnight and before the window's end has been suppressed.
C7_Witness ==
    \E slot \in DOMAIN calls :
        /\ calls[slot].pc = "gate"
        /\ DndOn(preferences, calls[slot].req.category)
        /\ preferences.doNotDisturbSchedule.start > preferences.doNotDisturbSchedule.end
        /\ calls[slot].hour < preferences.doNotDisturbSchedule.end
        /\ calls[slot].req.priority = "normal"
        /\ ~calls[slot].allowed

\* The request of a call in flight.
Subject(call) == IF call.pc = "gate" THEN call.req ELSE call.n

\* C8: while no preferences are stored, every call for one of the six
\* categories, of any priority, returns true.
C8_NoPreferencesAcceptsAll ==
    [][\A slot \in DOMAIN calls :
          (/\ Returned(slot)
           /\ preferences = Null
           /\ Subject(calls[slot]).category \in CATEGORIES
           /\ Subject(calls[slot]).title # "")
              => lastReturn' = "true"]_vars

\* Nothing is queued, pending or in flight.
Quiescent ==
    batchQueue = <<>> /\ timeouts = {} /\ tasks = <<>> /\ Busy = {}

\* C9: every notification that entered the queue is eventually handed to the
\* sink, alone or in a summary: once the timeouts have expired and every
\* delivery has ended, none is left that no sink entry carries.
C9_QueuedEventuallyHanded ==
    Quiescent => \A id \in 1..(nextId - 1) : InSink(id) # {}

\* A step that runs processBatch: on the timeout or called directly.
Flush == ProcessBatch \/ \E t \in timeouts : TimerExpires(t)

\* C10: a flush of the empty queue delivers nothing and changes no state of
\* the service; every flush leaves the queue empty, so that the second of two
\* consecutive flushes delivers nothing.
C10_EmptyFlushIsNoOp ==
    [][Flush =>
          /\ batchQueue' = <<>>
          /\ batchQueue = <<>> =>
                UNCHANGED <<batchQueue, batchTimer, tasks, sink, flushed,
                            notificationHistory, preferences, calls, nextId>>]_vars

\* C10 witness: after a flush that delivered, a timeout has expired on the
\* empty queue and the sink holds what the first flush handed over, no more.
C10_Witness ==
    /\ \E i \in DOMAIN expired : expired[i] = 0
    /\ Len(flushed) = 1
    /\ FlushOutput(1) # {}
    /\ \A k \in DOMAIN sink : sink[k].flush = 1
    /\ batchQueue = <<>>

\* C11: a failure of the delivery is never a failure of sendNotification: a
\* call whose request passed the gate and was put on its path, immediate or
\* queued, returns true whatever becomes of the delivery.
C11_SinkFailureNotPropagated ==
    [][\A slot \in DOMAIN calls :
          (/\ Returned(slot)
           /\ calls[slot].pc \in {"await", "history"}
           /\ calls[slot].n.category \in CATEGORIES
           /\ calls[slot].n.title # "")
              => lastReturn' = "true"]_vars

\* C12: of a high-priority notification, what is put on display has renotify
\* set if and only if its category is security, whether the worker or the
\* page shows it.
C12_RenotifyOnlySecurity ==
    \A e \in shown :
        (e.via = "direct" => e.data.priority = "high")
            => e.renotify = (e.data.category = "security")

\* The tag the dispatcher computes for what it hands over.
DispatcherTag(n) ==
    IF IsSummary(n)
    THEN n.category \o "_summary"
    ELSE n.category \o "_" \o (IF n.userId = "" THEN "system" ELSE n.userId)

\* The entry on display shows the object n handed to the sink.
Shows(e, n) ==
    /\ e.title = n.title
    /\ e.data.category = n.category
    /\ ("type" \in DOMAIN e.data) = IsSummary(n)

\* C13: every notification on display carries the tag the dispatcher computed
\* for it: category and recipient (or system) for a standalone notification,
\* category and "summary" for a summary.
C13_DisplayedTag ==
    /\ \A k \in DOMAIN sink : sink[k].n.options.tag = DispatcherTag(sink[k].n)
    /\ \A e \in shown :
          \E k \in DOMAIN sink : Shows(e, sink[k].n) /\ e.tag = DispatcherTag(sink[k].n)

\* A click on the notification itself, shown by the worker.
PlainClick(entry) == \E clientOpen \in BOOLEAN : NotificationClick(entry, "", clientOpen)

\* The table of targets by category, for a payload that holds the ids its
\* target names.
TableTarget(data) ==
    CASE data.category = "message" /\ "groupId" \in DOMAIN data ->
            "/groups/" \o data.groupId
      [] data.category = "message" /\ "chatId" \in DOMAIN data ->
            "/chat/" \o data.chatId
      [] data.category = "group_invite" /\ "groupId" \in DOMAIN data ->
            "/groups/" \o data.groupId
      [] data.category = "mention" /\ {"groupId", "messageId"} \subseteq DOMAIN data ->
            "/groups/" \o data.groupId \o "?message=" \o data.messageId
      [] data.category = "security" ->
            "/admin/security"
      [] data.category \notin {"group_invite", "mention"} ->
            "/notifications"
      [] OTHER ->
            "unspecified"

\* C14: a click on a notification whose payload holds no url takes the
\* worker to the target of the table: the group or the chat for a message,
\* the group for an invitation, the message in its group for a mention,
\* /admin/security for security, and /notifications for anything else,
\* a message with neither id included.
C14_ClickTargetTable ==
    [][\A entry \in shown :
          (/\ PlainClick(entry)
           /\ "url" \notin DOMAIN entry.data
           /\ TableTarget(entry.data) # "unspecified")
              => nav'.url = TableTarget(entry.data)]_vars

\* C15: a click on a notification whose payload carries a url navigates to
\* that url, whatever the category and the other ids of the payload, whether
\* the worker or the page showed the notification.
C15_UrlOverrides ==
    [][\A entry \in shown :
          /\ (PlainClick(entry) /\ "url" \in DOMAIN entry.data)
                => nav'.kind # "none" /\ nav'.url = entry.data.url
          /\ (DirectClick(entry) /\ "url" \in DOMAIN entry.n.data)
                => nav'.kind # "none" /\ nav'.url = entry.n.data.url]_vars

\* The navigation of the action-handler table: reply and view_group open a
\* window; mark_read, dismiss, accept_invite and any unknown action navigate
\* nowhere.
ActionTable(action, data) ==
    CASE action = "reply" ->
            [kind |-> "open",
             url |-> "/chat/" \o (IF "chatId" \in DOMAIN data
                                  THEN data.chatId
                                  ELSE Field(data, "groupId")) \o "?reply=true"]
      [] action = "view_group" ->
            [kind |-> "open", url |-> "/groups/" \o Field(data, "groupId")]
      [] OTHER ->
            nav

\* C16: a click event on a notification the worker showed closes the
\* notification and is handled on exactly one path: with an action id, by the
\* action-handler table alone, an unknown action changing nothing else and
\* navigating nowhere; without one, by the click router alone.
C16_ClickOrAction ==
    [][\A entry \in shown, action \in ClickActions, clientOpen \in BOOLEAN :
          NotificationClick(entry, action, clientOpen) =>
              /\ entry \notin shown'
              /\ action # "" => nav' = ActionTable(action, entry.data)
              /\ action \notin {"", "reply", "view_group"} =>
                    UNCHANGED <<nav, badge, showing, inbox, pushLog, clearing>>
              /\ action = "" =>
                    /\ nav'.kind = (IF clientOpen THEN "post" ELSE "open")
                    /\ nav'.url = targetUrl(entry.data)]_vars

\* C16 witness: a click on the reply action has closed the only notification
\* shown and opened the reply window of its chat.
C16_Witness ==
    /\ pushLog = <<"handled">>
    /\ shown = {}
    /\ nav = [kind |-> "open", url |-> "/chat/c1?reply=true"]

\* C17: a push event with no data, or with data that is not JSON, is
\* dropped: nothing is displayed, the badge and everything else the worker
\* holds stay as they are; and whatever push events came before, a push that
\* decodes is handled: its notification is displayed unless the display
\* refuses it.
C17_UndecodablePushDropped ==
    [][/\ \A event \in BadPushes :
             Push(PushDocs, event) =>
                 /\ UNCHANGED <<shown, badge, showing, inbox, clearing, nav>>
                 /\ pushLog' \in {Append(pushLog, "nodata"), Append(pushLog, "badjson")}
       /\ pushLog' = Append(pushLog, "handled") =>
             \/ UNCHANGED <<shown, showing>>
             \/ /\ showing' = showing + 1
                /\ \E e \in shown', doc \in PushDocs :
                      /\ e \notin shown \/ shown' = shown
                      /\ e.title = doc.title
                      /\ e.data.category = doc.category]_vars

\* C17 witness: after a push that was dropped, a push that decodes has been
\* handled and its notification is on display, the badge as a page set it.
C17_Witness ==
    /\ Len(pushLog) = 2
    /\ pushLog[1] \in {"nodata", "badjson"}
    /\ pushLog[2] = "handled"
    /\ shown # {}
    /\ badge = 3

\* C18: when a clearAllNotifications run completes, started by the service
\* or by a CLEAR_NOTIFICATIONS message to the worker, no notification is on
\* display and the badge is zero.
C18_ClearAllClears ==
    [][\A i \in DOMAIN clearing :
          ClearSettled(i, "listed") \/ ClearSettled(i, "missing") =>
              shown' = {} /\ badge' = 0]_vars

\* C19: a push is treated as a sendNotification call: a push the preference
\* gate of the service suppresses (its category disabled, or not high inside
\* the do-not-disturb window) and a push of normal or low priority, which
\* would be batched, puts nothing on display when it arrives.
C19_PushThroughGate ==
    [][\A doc \in PushDocs :
          /\ Push(PushDocs, PushOf(Stringify(doc)))
          /\ \/ \E hour \in Hours :
                    ~shouldSendNotification(preferences, doc.category,
                                            doc.priority, hour)
             \/ doc.priority # "high"
          => shown' = shown]_vars

\* C20: the history is capped: some cap below the number of calls a
\* behaviour makes is never exceeded, so the history never holds a record for
\* each of MaxBatchNotifs accepted calls (the oldest would have been dropped).
C20_HistoryBounded == Len(notificationHistory) < MaxBatchNotifs

\* A sendNotification call whose enqueue started a flush.
SizeFlush == \E slot \in DOMAIN calls : Dispatch(slot) /\ Len(flushed') > Len(flushed)

\* C21: one flush per accumulation cycle.  The enqueue that reaches
\* BATCH_SIZE cancels the pending timeout and flushes, so that no timeout is
\* left to flush that cycle again; a flush by the timeout empties the queue
\* and leaves no timeout scheduled; and while the queue stays empty no
\* timeout is newly scheduled.
C21_OneFlushPerCycle ==
    [][/\ SizeFlush =>
             /\ batchQueue' = <<>>
             /\ batchTimer' = 0 /\ timeouts' = {}
       /\ (\E t \in timeouts : TimerExpires(t) /\ Len(batchQueue) > 0) =>
             /\ Len(flushed') = Len(flushed) + 1
             /\ batchQueue' = <<>>
             /\ batchTimer' = 0 /\ timeouts' = {}
       /\ (batchQueue = <<>> /\ batchQueue' = <<>>) => timeouts' \subseteq timeouts]_vars

\* C22: whatever calls, timer expiries and direct flushes came before, the
\* timer handle is recorded (batchTimer non-null) exactly when the queue is
\* not empty, and the queue holds fewer than BATCH_SIZE items.
C22_IdleOrAccumulating ==
    /\ batchTimer # 0 <=> batchQueue # <<>>
    /\ Len(batchQueue) < BATCH_SIZE

\* C22 witness: after a direct flush left its timeout behind, the queue is
\* one short of the threshold, its timer recorded.
C22_Witness ==
    /\ Len(batchQueue) = BATCH_SIZE - 1
    /\ batchTimer # 0
    /\ Cardinality(timeouts) = 2
    /\ flushed # <<>>

\* The items of category c in a snapshot, in queue order, and how many
\* items the deliveries of flush f among sink[1..k] stand for.
Partition(snapshot, c) == SelectSeq(snapshot, LAMBDA n : n.category = c)

Count(n) == IF IsSummary(n) THEN n.data.count ELSE 1

RECURSIVE FlushCount(_, _)
FlushCount(f, k) ==
    IF k = 0
    THEN 0
    ELSE FlushCount(f, k - 1) + (IF sink[k].flush = f THEN Count(sink[k].n) ELSE 0)

\* C23: a flush whose deliveries are over has handed over exactly one
\* object per category of its snapshot: the item itself for a category with
\* one item, and for a category with n > 1 items a summary with the title of
\* the category, the body "n new <category> notifications" and the ids of
\* exactly those n items; the counts of its deliveries sum to the size of
\* the snapshot.
C23_OneDeliveryPerCategory ==
    \A f \in DOMAIN flushed :
        FlushDone(f) =>
            LET cats == {flushed[f][i].category : i \in DOMAIN flushed[f]}
            IN  /\ \A c \in cats :
                      LET part == Partition(flushed[f], c)
                      IN  \E k \in FlushOutput(f) :
                             /\ \A j \in FlushOutput(f) :
                                   sink[j].n.category = c => j = k
                             /\ IF Len(part) = 1
                                THEN sink[k].n = part[1]
                                ELSE /\ sink[k].n.title = getCategoryTitle(c)
                                     /\ sink[k].n.body =
                                           ToString(Len(part)) \o " new " \o c
                                               \o " notifications"
                                     /\ IsSummary(sink[k].n)
                                     /\ sink[k].n.data.notifications = Ids(part)
                /\ \A k \in FlushOutput(f) : sink[k].n.category \in cats
                /\ FlushCount(f, Len(sink)) = Len(flushed[f])

\* C24: updatePreferences changes only the settings it names.  When the
\* defaults are loaded and updatePreferences is called with a categories map,
\* every category the map does not set to false is still accepted by the
\* gate afterwards, at every priority and hour.
C24_PartialUpdateKeepsOthers ==
    [][\A partial \in GatePartials :
          (/\ preferences = DefaultPreferences
           /\ "categories" \in DOMAIN partial
           /\ UpdatePreferences(partial)) =>
              \A c \in CATEGORIES :
                  ~Disabled(partial, c) =>
                      \A p \in PRIORITY, hour \in Hours :
                          shouldSendNotification(preferences', c, p, hour)]_vars

\* C25: at most one flush timeout is pending at any time, and a timeout that
\* flushes a queue is the one set by the first enqueue of that accumulation
\* cycle (the handle batchTimer records), so that no item is flushed sooner
\* than BATCH_DELAY after its cycle began.
C25_OneTimeoutPending ==
    [][/\ Cardinality(timeouts') <= 1
       /\ \A t \in timeouts :
             (TimerExpires(t) /\ batchQueue # <<>>) => t = batchTimer]_vars

\* Notification n is carried by object d: d is n, or a summary listing n.
Carries(d, n) ==
    \/ d = n
    \/ IsSummary(d) /\ n.id \in Range(d.data.notifications)

C27_SuppressedLeavesBatching ==
    [][\A slot \in DOMAIN calls :
          /\ (/\ Called(slot)
              /\ ~shouldSendNotification(preferences, calls'[slot].req.category,
                                         calls'[slot].req.priority, calls'[slot].hour))
                => /\ ~calls'[slot].allowed
                   /\ UNCHANGED <<batchQueue, batchTimer, timeouts, sink, tasks, flushed>>
          /\ (LeavesGate(slot) /\ ~calls[slot].allowed)
                => /\ lastReturn' = "false"
                   /\ UNCHANGED <<batchQueue, batchTimer, timeouts, sink, tasks, flushed>>]_vars

\* C27 witness: with one notification queued and recorded, a later call has
\* been suppressed and has returned false; the queue and its timer are as
\* before.
C27_Witness ==
    /\ \A slot \in DOMAIN calls : calls[slot] = Idle
    /\ Len(notificationHistory) = 1
    /\ lastReturn = "false"
    /\ preferences # Null
    /\ Len(batchQueue) = 1
    /\ batchTimer # 0 /\ timeouts = {batchTimer}
    /\ sink = <<>>

\* C28: the history holds exactly the notifications of the calls that
\* returned true, each once.  A call that returns true appends its one
\* record in the step of its return, delivered at once or queued; a call that
\* returns false, suppressed or failed, appends nothing; no other step
\* writes the history; and no two records have the same id.
C28_HistoryIsTrueReturns ==
    [][/\ \A slot \in DOMAIN calls :
             Returned(slot) =>
                 \/ /\ lastReturn' = "true"
                    /\ calls[slot].pc = "history"
                    /\ notificationHistory' = Append(notificationHistory, calls[slot].n)
                 \/ /\ lastReturn' = "false"
                    /\ UNCHANGED notificationHistory
       /\ (\A slot \in DOMAIN calls : ~Returned(slot)) =>
             UNCHANGED <<notificationHistory, lastReturn>>
       /\ \A i, j \in DOMAIN notificationHistory' :
             i # j => notificationHistory'[i].id # notificationHistory'[j].id]_vars

\* C28 witness: two notifications were built; the queued one is recorded,
\* the one delivered at once failed, its call returned false, and it is not
\* in the history.
C28_Witness ==
    /\ \A slot \in DOMAIN calls : calls[slot] = Idle
    /\ nextId = 3
    /\ Len(notificationHistory) = 1
    /\ notificationHistory[1].priority = "normal"
    /\ lastReturn = "false"

\* C29: the two click handlers agree: a click on a notification the page
\* has shown navigates to the target the worker's handleNotificationClick
\* computes for the same category and payload.
C29_ClickHandlersAgree ==
    [][\A entry \in shown :
          DirectClick(entry) =>
              /\ nav'.kind # "none"
              /\ nav'.url = targetUrl(entry.data)]_vars

\* The last k elements of a sequence, in order.
LastOf(seq, k) == [i \in 1..k |-> seq[Len(seq) - k + i]]

\* C30: getNotificationHistory(limit) returns the min(limit, length) most
\* recent records of the history in append order, for every limit from 0 up,
\* none at all for limit 0, and leaves the history as it is.
C30_HistoryLastLimit ==
    [][\A limit \in HistoryLimits :
          GetNotificationHistory(limit) =>
              LET k == IF limit < Len(notificationHistory)
                       THEN limit
                       ELSE Len(notificationHistory)
              IN  /\ fetched' = LastOf(notificationHistory, k)
                  /\ Len(fetched') <= limit
                  /\ UNCHANGED notificationHistory]_vars

====
